---- MODULE Spec2Model ----
(***************************************************************************)
(* Model of the liveness-capture page (LivenessPage): the React state of   *)
(* the component, its refs, and every asynchronous invocation of its       *)
(* handlers.  A handler runs atomically from one suspension point (await)  *)
(* to the next; what a handler read from its closure when it was invoked   *)
(* (session, method) is kept in the record of the invocation.              *)
(***************************************************************************)
EXTENDS Integers, Sequences, FiniteSets, TLC

VARIABLES
    nik, method, session, result, step, loading, error, cameraReady,
    countdown, currentChallenge, challengeIndex, instruction,
    faceDetected, faceCount, faceDistance, ovalSize, borderColor, isCapturing,
    streamRef, framesRef, modelRef, detectionIntervalRef,
    videoSrc, activeStreams, nextStream, nextSession,
    pcLoadModel, pcCreate, seqs, detectInFlight, lastOp

reactState == <<nik, method, session, result, step, loading, error, cameraReady,
                countdown, currentChallenge, challengeIndex, instruction,
                faceDetected, faceCount, faceDistance, ovalSize, borderColor,
                isCapturing>>
refs == <<streamRef, framesRef, modelRef, detectionIntervalRef>>
vars == <<reactState, refs, videoSrc, activeStreams, nextStream, nextSession,
          pcLoadModel, pcCreate, seqs, detectInFlight, lastOp>>

-----------------------------------------------------------------------------
(* Bounds of the model *)
MaxSessions == 2      \* sessions the server hands out in one run
MaxSeqs == 2          \* invocations of startVerification in one run
MaxDetect == 1        \* detectFace calls in flight at once
MaxFaces == 2         \* faces the detector reports at most

(* Program constants *)
NikLength == 16
CountdownStart == 3
PassiveFramesOneShort == 5 - 1
PassiveFrames == 5
OvalMin == 60
OvalMaxLow == 85 - 5
OvalMax == 85
RatioTooFar == 15     \* 0.15, in percent
RatioTooClose == 35   \* 0.35, in percent
OvalScale == 4        \* ovalSize is kept in quarters of a percent

NoStream == 0
NoCountdown == 0
NoChallenge == ""
NoAction == ""
NoError == "none"
NoDistance == "null"

Digits == {"0", "1", "2", "3", "4", "5", "6", "7", "8", "9"}
IsDigit(c) == c \in Digits

(* What is typed or pasted into the identifier field, character by character *)
TypedValues ==
    { <<"1", "2", "3", "4", "5">>,
      <<"3", "2", "7", "5", "0", "3", "5", "4", "0", "2", "9", "5", "0", "0", "2", "0">>,
      <<"3", "2", "7", "5", "-", "0", "3", "5", "4", "-", "0", "2", "9", "5", "-", "0", "0", "2", "0", "x", "9">> }

(* The onChange filter of the identifier field: non-digits are dropped, then the
   value is cut to sixteen characters *)
NikFilter(raw) ==
    LET digits == SelectSeq(raw, IsDigit)
    IN  SubSeq(digits, 1, IF Len(digits) < NikLength THEN Len(digits) ELSE NikLength)
Methods == {"passive", "active"}
ChallengeLists == {<< >>, <<"blink", "smile">>}
RatioValues == {10, 25, 40}

CHALLENGE_NAMES(c) ==
    CASE c = "blink" -> "Kedipkan mata Anda"
      [] c = "smile" -> "Tersenyumlah"
      [] c = "nod" -> "Anggukkan kepala Anda"
      [] c = "turnRight" -> "Putar kepala ke kanan"
      [] c = "turnLeft" -> "Putar kepala ke kiri"
      [] OTHER -> c

NoSession == [sessionId |-> 0, nik |-> << >>, method |-> "passive",
              hasChallenges |-> FALSE, challenges |-> << >>]
NoResult == [present |-> FALSE, sessionId |-> 0, isLive |-> FALSE, confidence |-> 0,
             hasFile |-> FALSE, failureReason |-> "", errorCode |-> ""]

Op(name, seq, stale, sid, frames) ==
    [name |-> name, seq |-> seq, stale |-> stale, sid |-> sid, frames |-> frames]
SimpleOp(name) == Op(name, 0, FALSE, 0, << >>)

(* The video and the two canvases are rendered only in the camera step. *)
VideoMounted(s) == s = "camera"

(* The detection-loop effect: an interval exists exactly under this guard. *)
DetectionLoop(s, ready, capturing) == s = "camera" /\ ready /\ ~capturing

Effects == detectionIntervalRef' = DetectionLoop(step', cameraReady', isCapturing')

-----------------------------------------------------------------------------
Init ==
    /\ nik = << >>
    /\ method = "passive"
    /\ session = NoSession
    /\ result = NoResult
    /\ step = "input"
    /\ loading = FALSE
    /\ error = NoError
    /\ cameraReady = FALSE
    /\ countdown = NoCountdown
    /\ currentChallenge = NoChallenge
    /\ challengeIndex = 0
    /\ instruction = "Posisikan wajah dalam bingkai oval"
    /\ faceDetected = FALSE
    /\ faceCount = 0
    /\ faceDistance = NoDistance
    /\ ovalSize = OvalMin * OvalScale
    /\ borderColor = "white"
    /\ isCapturing = FALSE
    /\ streamRef = NoStream
    /\ framesRef = << >>
    /\ modelRef = FALSE
    /\ detectionIntervalRef = FALSE
    /\ videoSrc = NoStream
    /\ activeStreams = {}
    /\ nextStream = 1
    /\ nextSession = 1
    /\ pcLoadModel = "loading"
    /\ pcCreate = "idle"
    /\ seqs = << >>
    /\ detectInFlight = 0
    /\ lastOp = SimpleOp("init")

guidance == <<faceDetected, faceCount, faceDistance, ovalSize, borderColor, instruction>>
challengeState == <<currentChallenge, challengeIndex>>
streams == <<streamRef, activeStreams, nextStream, videoSrc>>
model == <<modelRef, pcLoadModel>>
inputs == <<nik, method>>

-----------------------------------------------------------------------------
(* loadModel effect: the one-time asynchronous initialisation of the detector *)
LoadModelDone ==
    /\ pcLoadModel = "loading"
    /\ modelRef' = TRUE
    /\ pcLoadModel' = "done"
    /\ lastOp' = SimpleOp("loadModel")
    /\ UNCHANGED <<reactState, streamRef, framesRef, detectionIntervalRef, videoSrc,
                   activeStreams, nextStream, nextSession, pcCreate, seqs,
                   detectInFlight>>

LoadModelFailed ==
    /\ pcLoadModel = "loading"
    /\ pcLoadModel' = "done"
    /\ lastOp' = SimpleOp("loadModelFailed")
    /\ UNCHANGED <<reactState, refs, videoSrc, activeStreams, nextStream, nextSession,
                   pcCreate, seqs, detectInFlight>>

(* The identifier field and the method radio buttons of the input step; the form is
   edited between requests, not while one is awaited *)
SetNik(raw) ==
    /\ step = "input"
    /\ ~loading
    /\ NikFilter(raw) # nik
    /\ nik' = NikFilter(raw)
    /\ lastOp' = SimpleOp("setNik")
    /\ UNCHANGED <<method, session, result, step, loading, error, cameraReady, countdown,
                   challengeState, guidance, isCapturing, refs, streams, nextSession,
                   pcLoadModel, pcCreate, seqs, detectInFlight>>

SetMethod(m) ==
    /\ step = "input"
    /\ ~loading
    /\ m # method
    /\ method' = m
    /\ lastOp' = SimpleOp("setMethod")
    /\ UNCHANGED <<nik, session, result, step, loading, error, cameraReady, countdown,
                   challengeState, guidance, isCapturing, refs, streams, nextSession,
                   pcLoadModel, pcCreate, seqs, detectInFlight>>

-----------------------------------------------------------------------------
(* A stopCamera that drops the reference without stopping the tracks *)
StoppedStreamsKept(ref, active) == active

(* stopCamera: the tracks of the stream streamRef holds are stopped *)
StoppedStreams(ref, active) == IF ref # NoStream THEN active \ {ref} ELSE active

(* A stopCamera that flips cameraReady instead of clearing it *)
StopCameraFlips ==
    /\ activeStreams' = StoppedStreams(streamRef, activeStreams)
    /\ streamRef' = NoStream
    /\ cameraReady' = ~cameraReady
    /\ faceDetected' = FALSE

StopCamera ==
    /\ activeStreams' = StoppedStreams(streamRef, activeStreams)
    /\ streamRef' = NoStream
    /\ cameraReady' = FALSE
    /\ faceDetected' = FALSE

(* A check of the identifier that only asks for a non-empty value *)
NikValidNonEmpty(n) == n # << >>

(* The check createSession makes before anything else *)
NikValid(n) == n # << >> /\ Len(n) = NikLength

(* createSession, up to the await of the create-session request *)
CreateSessionRejected ==
    /\ step = "input"
    /\ ~loading
    /\ ~NikValid(nik)
    /\ error' = "NIK harus 16 digit"
    /\ lastOp' = SimpleOp("createRejected")
    /\ UNCHANGED <<inputs, session, result, step, loading, cameraReady, countdown,
                   challengeState, guidance, isCapturing, refs, streams, nextSession,
                   pcLoadModel, pcCreate, seqs, detectInFlight>>

CreateSession ==
    /\ step = "input"
    /\ ~loading
    /\ NikValid(nik)
    /\ nextSession <= MaxSessions + 1
    /\ loading' = TRUE
    /\ error' = NoError
    /\ pcCreate' = "fetch"
    /\ lastOp' = SimpleOp("createSession")
    /\ UNCHANGED <<inputs, session, result, step, cameraReady, countdown,
                   challengeState, guidance, isCapturing, refs, streams, nextSession,
                   pcLoadModel, seqs, detectInFlight>>

(* createSession after the response: the session is stored and startCamera is
   entered, up to its await of getUserMedia *)
CreateSessionOk(has, ch) ==
    /\ pcCreate = "fetch"
    /\ nextSession <= MaxSessions
    /\ method = "passive" => ~has
    /\ ~has => ch = << >>
    /\ session' = [sessionId |-> nextSession, nik |-> nik,
                   method |-> method, hasChallenges |-> has, challenges |-> ch]
    /\ nextSession' = nextSession + 1
    /\ step' = "camera"
    /\ framesRef' = << >>
    /\ pcCreate' = "getUserMedia"
    /\ lastOp' = SimpleOp("sessionCreated")
    /\ UNCHANGED <<inputs, result, loading, error, cameraReady, countdown, challengeState,
                   guidance, isCapturing, streamRef, modelRef, streams, pcLoadModel, seqs, detectInFlight>>
    /\ Effects

CreateSessionFailed ==
    /\ pcCreate = "fetch"
    /\ error' = "Failed to create session"
    /\ loading' = FALSE
    /\ pcCreate' = "idle"
    /\ lastOp' = SimpleOp("createFailed")
    /\ UNCHANGED <<inputs, session, result, step, cameraReady, countdown, challengeState,
                   guidance, isCapturing, refs, streams, nextSession, pcLoadModel, seqs,
                   detectInFlight>>

(* startCamera after getUserMedia: the stream is stored and, when the video element
   is mounted, attached to it; play() is awaited *)
HeldStreams(ref, active, new) == active \cup {new}

GetUserMediaResolved ==
    /\ pcCreate = "getUserMedia"
    /\ activeStreams' = HeldStreams(streamRef, activeStreams, nextStream)
    /\ streamRef' = nextStream
    /\ nextStream' = nextStream + 1
    /\ IF VideoMounted(step)
         THEN /\ videoSrc' = nextStream
              /\ pcCreate' = "play"
              /\ UNCHANGED loading
         ELSE /\ videoSrc' = videoSrc
              /\ pcCreate' = "idle"
              /\ loading' = FALSE
    /\ lastOp' = SimpleOp("getUserMedia")
    /\ UNCHANGED <<inputs, session, result, step, error, cameraReady, countdown,
                   challengeState, guidance, isCapturing, framesRef, modelRef,
                   detectionIntervalRef, nextSession, pcLoadModel, seqs, detectInFlight>>

GetUserMediaRejected ==
    /\ pcCreate = "getUserMedia"
    /\ error' = "Tidak dapat mengakses kamera. Pastikan izin kamera diberikan."
    /\ loading' = FALSE
    /\ pcCreate' = "idle"
    /\ lastOp' = SimpleOp("getUserMediaRejected")
    /\ UNCHANGED <<inputs, session, result, step, cameraReady, countdown, challengeState,
                   guidance, isCapturing, refs, streams, nextSession, pcLoadModel, seqs,
                   detectInFlight>>

(* play() resolves while the element is in the document *)
PlayResolved ==
    /\ pcCreate = "play"
    /\ videoSrc # NoStream
    /\ cameraReady' = TRUE
    /\ instruction' = "Posisikan wajah dalam bingkai oval"
    /\ borderColor' = "white"
    /\ ovalSize' = OvalMin * OvalScale
    /\ loading' = FALSE
    /\ pcCreate' = "idle"
    /\ lastOp' = SimpleOp("cameraReady")
    /\ UNCHANGED <<inputs, session, result, step, error, countdown, challengeState,
                   faceDetected, faceCount, faceDistance, isCapturing, streamRef,
                   framesRef, modelRef, streams, nextSession, pcLoadModel, seqs,
                   detectInFlight>>
    /\ Effects

(* play() is rejected when the element was removed from the document meanwhile *)
PlayRejected ==
    /\ pcCreate = "play"
    /\ videoSrc = NoStream
    /\ error' = "Tidak dapat mengakses kamera. Pastikan izin kamera diberikan."
    /\ loading' = FALSE
    /\ pcCreate' = "idle"
    /\ lastOp' = SimpleOp("playRejected")
    /\ UNCHANGED <<inputs, session, result, step, cameraReady, countdown, challengeState,
                   guidance, isCapturing, refs, streams, nextSession, pcLoadModel, seqs,
                   detectInFlight>>


-----------------------------------------------------------------------------
(* A classification that puts the two boundary ratios outside the good range *)
GuidanceBoundaryOut(faceRatio) ==
    IF faceRatio <= RatioTooFar
      THEN [distance |-> "too-far", ovalSize |-> OvalMin * OvalScale,
            instruction |-> "Terlalu jauh, dekatkan wajah Anda", borderColor |-> "white"]
    ELSE IF faceRatio >= RatioTooClose
      THEN [distance |-> "too-close", ovalSize |-> OvalMax * OvalScale,
            instruction |-> "Terlalu dekat, mundur sedikit", borderColor |-> "white"]
    ELSE [distance |-> "good",
          ovalSize |-> OvalMin * OvalScale
                       + ((faceRatio - RatioTooFar) * (OvalMax - OvalMin) * OvalScale)
                         \div (RatioTooClose - RatioTooFar),
          instruction |-> "Wajah terdeteksi", borderColor |-> "green"]

(* A classification without the too-close branch: the size keeps growing *)
GuidanceUnclamped(faceRatio) ==
    IF faceRatio < RatioTooFar
      THEN [distance |-> "too-far", ovalSize |-> OvalMin * OvalScale,
            instruction |-> "Terlalu jauh, dekatkan wajah Anda", borderColor |-> "white"]
    ELSE [distance |-> "good",
          ovalSize |-> OvalMin * OvalScale
                       + ((faceRatio - RatioTooFar) * (OvalMax - OvalMin) * OvalScale)
                         \div (RatioTooClose - RatioTooFar),
          instruction |-> "Wajah terdeteksi", borderColor |-> "green"]

(* detectFace: the guidance computed from one face of the given size ratio (percent) *)
Guidance(faceRatio) ==
    IF faceRatio < RatioTooFar
      THEN [distance |-> "too-far", ovalSize |-> OvalMin * OvalScale,
            instruction |-> "Terlalu jauh, dekatkan wajah Anda", borderColor |-> "white"]
    ELSE IF faceRatio > RatioTooClose
      THEN [distance |-> "too-close", ovalSize |-> OvalMax * OvalScale,
            instruction |-> "Terlalu dekat, mundur sedikit", borderColor |-> "white"]
    ELSE [distance |-> "good",
          ovalSize |-> OvalMin * OvalScale
                       + ((faceRatio - RatioTooFar) * (OvalMax - OvalMin) * OvalScale)
                         \div (RatioTooClose - RatioTooFar),
          instruction |-> "Wajah terdeteksi", borderColor |-> "green"]

(* A tick that calls the detector without looking at modelRef *)
DetectTickNoModelCheck ==
    /\ detectionIntervalRef
    /\ detectInFlight < MaxDetect
    /\ IF VideoMounted(step)
         THEN /\ detectInFlight' = detectInFlight + 1
              /\ lastOp' = SimpleOp("detectStart")
         ELSE /\ detectInFlight' = detectInFlight
              /\ lastOp' = SimpleOp("detectSkipped")
    /\ UNCHANGED <<reactState, refs, streams, nextSession, pcLoadModel, pcCreate, seqs>>

(* A tick of the detection interval: detectFace up to its await of estimateFaces *)
DetectTick ==
    /\ detectionIntervalRef
    /\ detectInFlight < MaxDetect
    /\ IF VideoMounted(step) /\ modelRef
         THEN /\ detectInFlight' = detectInFlight + 1
              /\ lastOp' = SimpleOp("detectStart")
         ELSE /\ detectInFlight' = detectInFlight
              /\ lastOp' = SimpleOp("detectSkipped")
    /\ UNCHANGED <<reactState, refs, streams, nextSession, pcLoadModel, pcCreate, seqs>>

(* detectFace after estimateFaces returned n predictions *)
DetectNoFace ==
    /\ detectInFlight > 0
    /\ detectInFlight' = detectInFlight - 1
    /\ faceDetected' = FALSE
    /\ faceCount' = 0
    /\ faceDistance' = NoDistance
    /\ lastOp' = SimpleOp("detectNoFace")
    /\ UNCHANGED <<inputs, session, result, step, loading, error, cameraReady, countdown,
                   challengeState, instruction, ovalSize, borderColor, isCapturing, refs,
                   streams, nextSession, pcLoadModel, pcCreate, seqs>>

DetectManyFaces(n) ==
    /\ detectInFlight > 0
    /\ n > 1
    /\ detectInFlight' = detectInFlight - 1
    /\ faceCount' = n
    /\ borderColor' = "red"
    /\ instruction' = "Pastikan hanya satu wajah dalam bingkai"
    /\ lastOp' = SimpleOp("detectManyFaces")
    /\ UNCHANGED <<inputs, session, result, step, loading, error, cameraReady, countdown,
                   challengeState, faceDetected, faceDistance, ovalSize, isCapturing, refs,
                   streams, nextSession, pcLoadModel, pcCreate, seqs>>

DetectOneFace(faceRatio) ==
    /\ detectInFlight > 0
    /\ detectInFlight' = detectInFlight - 1
    /\ faceDetected' = TRUE
    /\ faceCount' = 1
    /\ faceDistance' = Guidance(faceRatio).distance
    /\ ovalSize' = Guidance(faceRatio).ovalSize
    /\ instruction' = Guidance(faceRatio).instruction
    /\ borderColor' = Guidance(faceRatio).borderColor
    /\ lastOp' = SimpleOp("detectOneFace")
    /\ UNCHANGED <<inputs, session, result, step, loading, error, cameraReady, countdown,
                   challengeState, isCapturing, refs, streams, nextSession, pcLoadModel,
                   pcCreate, seqs>>

(* A catch block that gives up the attempt *)
DetectErrorAborts ==
    /\ detectInFlight > 0
    /\ detectInFlight' = detectInFlight - 1
    /\ error' = "Face detection error"
    /\ step' = "result"
    /\ lastOp' = SimpleOp("detectError")
    /\ UNCHANGED <<inputs, session, result, loading, cameraReady, countdown,
                   challengeState, guidance, isCapturing, streamRef, framesRef, modelRef,
                   streams, nextSession, pcLoadModel, pcCreate, seqs>>
    /\ Effects

(* estimateFaces throws: the catch block only logs *)
DetectError ==
    /\ detectInFlight > 0
    /\ detectInFlight' = detectInFlight - 1
    /\ lastOp' = SimpleOp("detectError")
    /\ UNCHANGED <<reactState, refs, streams, nextSession, pcLoadModel, pcCreate, seqs>>

-----------------------------------------------------------------------------
(* captureFrame: null unless the video and the canvas are mounted; the image is what
   the video shows (the empty image when no live stream is attached).  att records
   the session that is current when the frame is taken. *)
CaptureFrame(action) ==
    IF VideoMounted(step)
      THEN << [action |-> action,
               image |-> IF videoSrc \in activeStreams THEN videoSrc ELSE NoStream,
               att |-> session.sessionId] >>
      ELSE << >>

(* The guard of startVerification on the guidance state *)
Eligible(detected, distance, count) == detected /\ distance = "good" /\ count = 1

(* The disabled predicate of the capture button *)
CaptureButtonEnabled ==
    /\ cameraReady
    /\ countdown = NoCountdown
    /\ faceDetected /\ faceDistance = "good" /\ faceCount = 1
    /\ ~isCapturing

DoneSeq == [sess |-> NoSession, method |-> "passive", pc |-> "done", i |-> 0,
            stale |-> FALSE, alone |-> FALSE]

(* No earlier capture sequence is still between two of its awaits.  A sequence
   remembers in alone whether that held when it was started. *)
NoneRunning(ss) == \A j \in 1..Len(ss) : ss[j].pc = "done"

(* A rejected startVerification that has already raised the capturing flag *)
StartVerificationRejectedLate ==
    /\ step = "camera"
    /\ session # NoSession
    /\ ~Eligible(faceDetected, faceDistance, faceCount)
    /\ isCapturing' = TRUE
    /\ error' = "Pastikan wajah terdeteksi dengan baik dan posisi tepat di tengah"
    /\ lastOp' = SimpleOp("startRejected")
    /\ UNCHANGED <<inputs, session, result, step, loading, cameraReady, countdown,
                   challengeState, guidance, streamRef, framesRef, modelRef, streams,
                   nextSession, pcLoadModel, pcCreate, seqs, detectInFlight>>
    /\ Effects

(* startVerification invoked with a guidance state that is not eligible *)
StartVerificationRejected ==
    /\ step = "camera"
    /\ session # NoSession
    /\ ~Eligible(faceDetected, faceDistance, faceCount)
    /\ error' = "Pastikan wajah terdeteksi dengan baik dan posisi tepat di tengah"
    /\ lastOp' = SimpleOp("startRejected")
    /\ UNCHANGED <<inputs, session, result, step, loading, cameraReady, countdown,
                   challengeState, guidance, isCapturing, refs, streams, nextSession,
                   pcLoadModel, pcCreate, seqs, detectInFlight>>

(* A startVerification whose button and handler do not look at the guidance state *)
StartVerificationUnguarded ==
    /\ step = "camera"
    /\ cameraReady /\ countdown = NoCountdown /\ ~isCapturing
    /\ session # NoSession
    /\ Len(seqs) < MaxSeqs
    /\ isCapturing' = TRUE
    /\ instruction' = "Bersiap..."
    /\ countdown' = CountdownStart
    /\ seqs' = Append(seqs, [sess |-> session, method |-> method, pc |-> "countdown",
                             i |-> CountdownStart, stale |-> FALSE,
                             alone |-> NoneRunning(seqs)])
    /\ lastOp' = Op("startVerification", Len(seqs) + 1, FALSE, session.sessionId, << >>)
    /\ UNCHANGED <<inputs, session, result, step, loading, error, cameraReady,
                   challengeState, faceDetected, faceCount, faceDistance, ovalSize,
                   borderColor, streamRef, framesRef, modelRef, streams, nextSession,
                   pcLoadModel, pcCreate, detectInFlight>>
    /\ Effects

(* startVerification from the capture button, up to the first countdown wait *)
StartVerification ==
    /\ step = "camera"
    /\ CaptureButtonEnabled
    /\ session # NoSession
    /\ Eligible(faceDetected, faceDistance, faceCount)
    /\ Len(seqs) < MaxSeqs
    /\ isCapturing' = TRUE
    /\ instruction' = "Bersiap..."
    /\ countdown' = CountdownStart
    /\ seqs' = Append(seqs, [sess |-> session, method |-> method, pc |-> "countdown",
                             i |-> CountdownStart, stale |-> FALSE,
                             alone |-> NoneRunning(seqs)])
    /\ lastOp' = Op("startVerification", Len(seqs) + 1, FALSE, session.sessionId, << >>)
    /\ UNCHANGED <<inputs, session, result, step, loading, error, cameraReady,
                   challengeState, faceDetected, faceCount, faceDistance, ovalSize,
                   borderColor, streamRef, framesRef, modelRef, streams, nextSession,
                   pcLoadModel, pcCreate, detectInFlight>>
    /\ Effects

(* A countdown wait of sequence k elapses and another one follows *)
CountdownTick(k) ==
    /\ seqs[k].pc = "countdown"
    /\ seqs[k].i > 1
    /\ countdown' = seqs[k].i - 1
    /\ seqs' = [seqs EXCEPT ![k].i = @ - 1]
    /\ lastOp' = Op("countdownTick", k, seqs[k].stale, seqs[k].sess.sessionId, << >>)
    /\ UNCHANGED <<inputs, session, result, step, loading, error, cameraReady,
                   challengeState, guidance, isCapturing, refs, streams, nextSession,
                   pcLoadModel, pcCreate, detectInFlight>>


(* What every step of a capture sequence leaves alone *)
SeqFrame == <<inputs, session, result, loading, faceCount, faceDistance, ovalSize,
              modelRef, nextStream, nextSession, pcLoadModel, pcCreate,
              detectInFlight>>

(* What a step that only captures leaves alone as well *)
CaptureFrameOnly == <<step, error, cameraReady, faceDetected, isCapturing, streamRef,
                      activeStreams, videoSrc, detectionIntervalRef>>

(* submitVerification of sequence k on the frame buffer f, up to the await of the
   verify request; with an empty buffer it returns and startVerification ends *)
SubmitVerification(k, f) ==
    /\ framesRef' = f
    /\ IF seqs[k].sess = NoSession \/ Len(f) = 0
         THEN /\ error' = "Tidak ada frame yang di-capture"
              /\ isCapturing' = FALSE
              /\ seqs' = [seqs EXCEPT ![k] = DoneSeq]
              /\ lastOp' = Op("emptyCapture", k, seqs[k].stale, seqs[k].sess.sessionId,
                              << >>)
              /\ UNCHANGED <<step, streamRef, activeStreams, cameraReady, faceDetected,
                             videoSrc>>
         ELSE /\ step' = "processing"
              /\ StopCamera
              /\ videoSrc' = NoStream
              /\ seqs' = [seqs EXCEPT ![k].pc = "fetch", ![k].i = 0]
              /\ lastOp' = Op("submit", k, seqs[k].stale, seqs[k].sess.sessionId, f)
              /\ UNCHANGED <<error, isCapturing>>
    /\ Effects

(* The last countdown wait elapses: runPassiveVerification up to its first wait *)
PassiveStart(k) ==
    /\ seqs[k].pc = "countdown" /\ seqs[k].i = 1
    /\ seqs[k].method = "passive"
    /\ countdown' = NoCountdown
    /\ instruction' = "Tetap diam, sedang memverifikasi..."
    /\ borderColor' = "green"
    /\ framesRef' = CaptureFrame(NoAction)
    /\ seqs' = [seqs EXCEPT ![k].pc = "passiveWait", ![k].i = 0]
    /\ lastOp' = Op("capture", k, seqs[k].stale, seqs[k].sess.sessionId,
                    CaptureFrame(NoAction))
    /\ UNCHANGED <<SeqFrame, CaptureFrameOnly, challengeState>>

(* A 400 ms wait elapses and another frame is due *)
PassiveCapture(k) ==
    /\ seqs[k].pc = "passiveWait" /\ seqs[k].i + 1 < PassiveFrames
    /\ framesRef' = framesRef \o CaptureFrame(NoAction)
    /\ seqs' = [seqs EXCEPT ![k].i = @ + 1]
    /\ lastOp' = Op("capture", k, seqs[k].stale, seqs[k].sess.sessionId,
                    CaptureFrame(NoAction))
    /\ UNCHANGED <<SeqFrame, CaptureFrameOnly, challengeState, countdown, instruction,
                   borderColor>>

(* The last 400 ms wait elapses: submitVerification *)
PassiveSubmit(k) ==
    /\ seqs[k].pc = "passiveWait" /\ seqs[k].i + 1 >= PassiveFrames
    /\ SubmitVerification(k, framesRef)
    /\ UNCHANGED <<SeqFrame, challengeState, countdown, instruction, borderColor>>

(* The last countdown wait elapses: runActiveVerification without a challenge list *)
ActiveNoChallenges(k) ==
    /\ seqs[k].pc = "countdown" /\ seqs[k].i = 1
    /\ seqs[k].method = "active"
    /\ ~seqs[k].sess.hasChallenges
    /\ countdown' = NoCountdown
    /\ isCapturing' = FALSE
    /\ seqs' = [seqs EXCEPT ![k] = DoneSeq]
    /\ lastOp' = Op("noChallenges", k, seqs[k].stale, seqs[k].sess.sessionId, << >>)
    /\ UNCHANGED <<SeqFrame, challengeState, instruction, borderColor, step, error,
                   cameraReady, faceDetected, streamRef, activeStreams, videoSrc,
                   framesRef>>
    /\ Effects

(* ... with an empty challenge list: the loop body never runs *)
ActiveEmpty(k) ==
    /\ seqs[k].pc = "countdown" /\ seqs[k].i = 1
    /\ seqs[k].method = "active"
    /\ seqs[k].sess.hasChallenges
    /\ Len(seqs[k].sess.challenges) = 0
    /\ countdown' = NoCountdown
    /\ currentChallenge' = NoChallenge
    /\ SubmitVerification(k, << >>)
    /\ UNCHANGED <<SeqFrame, challengeIndex, instruction, borderColor>>

(* A loop that walks the challenge list from its end *)
ChallengeAtReversed(challenges, i) == challenges[Len(challenges) + 1 - i]

(* The challenge the loop of runActiveVerification visits in its i-th round *)
ChallengeAt(challenges, i) == challenges[i]

(* ... with challenges: the first one is shown and its wait begins *)
ActiveStart(k) ==
    /\ seqs[k].pc = "countdown" /\ seqs[k].i = 1
    /\ seqs[k].method = "active"
    /\ seqs[k].sess.hasChallenges
    /\ Len(seqs[k].sess.challenges) > 0
    /\ countdown' = NoCountdown
    /\ framesRef' = << >>
    /\ challengeIndex' = 0
    /\ currentChallenge' = ChallengeAt(seqs[k].sess.challenges, 1)
    /\ instruction' = CHALLENGE_NAMES(ChallengeAt(seqs[k].sess.challenges, 1))
    /\ borderColor' = "white"
    /\ seqs' = [seqs EXCEPT ![k].pc = "activeWait", ![k].i = 1]
    /\ lastOp' = Op("challenge", k, seqs[k].stale, seqs[k].sess.sessionId, << >>)
    /\ UNCHANGED <<SeqFrame, CaptureFrameOnly>>

(* A 2.5 s wait elapses: the frame of challenge i is taken and the next is shown *)
ActiveCapture(k) ==
    /\ seqs[k].pc = "activeWait" /\ seqs[k].i < Len(seqs[k].sess.challenges)
    /\ framesRef' = framesRef \o CaptureFrame(ChallengeAt(seqs[k].sess.challenges, seqs[k].i))
    /\ challengeIndex' = seqs[k].i
    /\ currentChallenge' = ChallengeAt(seqs[k].sess.challenges, seqs[k].i + 1)
    /\ instruction' = CHALLENGE_NAMES(ChallengeAt(seqs[k].sess.challenges, seqs[k].i + 1))
    /\ borderColor' = "white"
    /\ seqs' = [seqs EXCEPT ![k].i = @ + 1]
    /\ lastOp' = Op("capture", k, seqs[k].stale, seqs[k].sess.sessionId,
                    CaptureFrame(ChallengeAt(seqs[k].sess.challenges, seqs[k].i)))
    /\ UNCHANGED <<SeqFrame, CaptureFrameOnly, countdown>>

(* The last 2.5 s wait elapses: the last frame is taken, then submitVerification *)
ActiveSubmit(k) ==
    /\ seqs[k].pc = "activeWait" /\ seqs[k].i >= Len(seqs[k].sess.challenges)
    /\ currentChallenge' = NoChallenge
    /\ SubmitVerification(k,
           framesRef \o CaptureFrame(ChallengeAt(seqs[k].sess.challenges, seqs[k].i)))
    /\ UNCHANGED <<SeqFrame, challengeIndex, countdown, instruction, borderColor>>

-----------------------------------------------------------------------------
(* The verdicts and failures the verify request can come back with *)
ServerVerdicts == {[isLive |-> TRUE, confidence |-> 985, hasFile |-> TRUE],
                   [isLive |-> FALSE, confidence |-> 120, hasFile |-> FALSE],
                   [isLive |-> FALSE, confidence |-> 0, hasFile |-> TRUE]}
ServerFailures == {[message |-> "", code |-> ""],
                   [message |-> "Session expired", code |-> "SESSION_EXPIRED"]}

(* A failure record that is marked live *)
FailureResultLive(sess, message, code) ==
    [present |-> TRUE, sessionId |-> sess.sessionId, isLive |-> TRUE, confidence |-> 0,
     hasFile |-> FALSE,
     failureReason |-> IF message # "" THEN message ELSE "Verification failed",
     errorCode |-> code]

(* The record submitVerification builds itself on a server-reported failure *)
FailureResult(sess, message, code) ==
    [present |-> TRUE, sessionId |-> sess.sessionId, isLive |-> FALSE, confidence |-> 0,
     hasFile |-> FALSE,
     failureReason |-> IF message # "" THEN message ELSE "Verification failed",
     errorCode |-> code]

(* A catch block that does not set the step *)
StepAfterVerifyCatchStays(outcome) ==
    IF outcome = "transport" THEN "processing" ELSE "result"

(* The step every completion of the verify request sets *)
StepAfterVerify(outcome) == "result"

(* What the completion of the verify request leaves alone *)
VerifyFrame == <<inputs, session, loading, cameraReady, countdown, challengeState,
                 guidance, refs, activeStreams, nextStream, nextSession, pcLoadModel,
                 pcCreate, detectInFlight>>

(* submitVerification after a success response, then the end of startVerification *)
VerifyOk(k, v) ==
    /\ seqs[k].pc = "fetch"
    /\ result' = [present |-> TRUE, sessionId |-> seqs[k].sess.sessionId,
                  isLive |-> v.isLive, confidence |-> v.confidence,
                  hasFile |-> v.hasFile, failureReason |-> "", errorCode |-> ""]
    /\ step' = StepAfterVerify("success")
    /\ videoSrc' = NoStream
    /\ isCapturing' = FALSE
    /\ seqs' = [seqs EXCEPT ![k] = DoneSeq]
    /\ lastOp' = Op("verifyOk", k, seqs[k].stale, seqs[k].sess.sessionId, << >>)
    /\ UNCHANGED <<VerifyFrame, error>>

(* ... after a response without success *)
VerifyServerFailure(k, message, code) ==
    /\ seqs[k].pc = "fetch"
    /\ result' = FailureResult(seqs[k].sess, message, code)
    /\ step' = StepAfterVerify("failure")
    /\ videoSrc' = NoStream
    /\ isCapturing' = FALSE
    /\ seqs' = [seqs EXCEPT ![k] = DoneSeq]
    /\ lastOp' = Op("verifyServerFailure", k, seqs[k].stale, seqs[k].sess.sessionId,
                    << >>)
    /\ UNCHANGED <<VerifyFrame, error>>

(* ... after the request or the parsing of its response threw *)
VerifyTransportFailure(k) ==
    /\ seqs[k].pc = "fetch"
    /\ error' = "Terjadi kesalahan saat verifikasi"
    /\ step' = StepAfterVerify("transport")
    /\ videoSrc' = NoStream
    /\ isCapturing' = FALSE
    /\ seqs' = [seqs EXCEPT ![k] = DoneSeq]
    /\ lastOp' = Op("verifyTransportFailure", k, seqs[k].stale,
                    seqs[k].sess.sessionId, << >>)
    /\ UNCHANGED <<VerifyFrame, result>>

-----------------------------------------------------------------------------
(* handleReset, from the cancel button of the camera step or the retry button of
   the result step.  A sequence that is still under way is marked stale. *)
Reset ==
    /\ StopCamera
    /\ session' = NoSession
    /\ result' = NoResult
    /\ error' = NoError
    /\ step' = "input"
    /\ framesRef' = << >>
    /\ challengeIndex' = 0
    /\ currentChallenge' = NoChallenge
    /\ faceCount' = 0
    /\ faceDistance' = NoDistance
    /\ ovalSize' = OvalMin * OvalScale
    /\ borderColor' = "white"
    /\ isCapturing' = FALSE
    /\ videoSrc' = NoStream
    /\ seqs' = [k \in 1..Len(seqs) |->
                  IF seqs[k].pc = "done" THEN seqs[k]
                  ELSE [seqs[k] EXCEPT !.stale = TRUE]]
    /\ lastOp' = Op("reset", 0, FALSE, session.sessionId, << >>)
    /\ UNCHANGED <<inputs, loading, countdown, instruction, modelRef, nextStream,
                   nextSession, pcLoadModel, pcCreate, detectInFlight>>
    /\ Effects

(* handleReset from one of the two buttons that call it: Batal in the camera step,
   Verifikasi Ulang in the result step *)
HandleReset ==
    /\ step \in {"camera", "result"}
    /\ Reset

(* handleReset run a second time, right after it has run *)
HandleResetAgain ==
    /\ step = "input"
    /\ lastOp.name = "reset"
    /\ Reset

-----------------------------------------------------------------------------
Next ==
    \/ LoadModelDone
    \/ LoadModelFailed
    \/ \E raw \in TypedValues : SetNik(raw)
    \/ \E m \in Methods : SetMethod(m)
    \/ CreateSessionRejected
    \/ CreateSession
    \/ \E has \in BOOLEAN, ch \in ChallengeLists : CreateSessionOk(has, ch)
    \/ CreateSessionFailed
    \/ GetUserMediaResolved
    \/ GetUserMediaRejected
    \/ PlayResolved
    \/ PlayRejected
    \/ DetectTick
    \/ DetectNoFace
    \/ \E n \in 2..MaxFaces : DetectManyFaces(n)
    \/ \E r \in RatioValues : DetectOneFace(r)
    \/ DetectError
    \/ StartVerificationRejected
    \/ StartVerification
    \/ \E k \in 1..Len(seqs) : CountdownTick(k)
    \/ \E k \in 1..Len(seqs) : PassiveStart(k)
    \/ \E k \in 1..Len(seqs) : PassiveCapture(k)
    \/ \E k \in 1..Len(seqs) : PassiveSubmit(k)
    \/ \E k \in 1..Len(seqs) : ActiveNoChallenges(k)
    \/ \E k \in 1..Len(seqs) : ActiveEmpty(k)
    \/ \E k \in 1..Len(seqs) : ActiveStart(k)
    \/ \E k \in 1..Len(seqs) : ActiveCapture(k)
    \/ \E k \in 1..Len(seqs) : ActiveSubmit(k)
    \/ \E k \in 1..Len(seqs), v \in ServerVerdicts : VerifyOk(k, v)
    \/ \E k \in 1..Len(seqs), f \in ServerFailures :
         VerifyServerFailure(k, f.message, f.code)
    \/ \E k \in 1..Len(seqs) : VerifyTransportFailure(k)
    \/ HandleReset
    \/ HandleResetAgain

Spec == Init /\ [][Next]_vars

(* The verify request of sequence k comes back, one way or another *)
VerifyDone(k) ==
    /\ k \in 1..Len(seqs)
    /\ \/ \E v \in ServerVerdicts : VerifyOk(k, v)
       \/ \E f \in ServerFailures : VerifyServerFailure(k, f.message, f.code)
       \/ VerifyTransportFailure(k)

(* Every verify request that was sent eventually completes or fails *)
LiveSpec == Spec /\ \A k \in 1..MaxSeqs : WF_vars(VerifyDone(k))

-----------------------------------------------------------------------------
(* A result step that shows success for every stored result *)
ResultViewIgnoresLive(res, err) ==
    IF err # NoError /\ ~res.present
      THEN [kind |-> "error", text |-> err, showsConfidence |-> FALSE,
            confidence |-> 0, image |-> FALSE]
    ELSE IF res.present
      THEN [kind |-> "success", text |-> "Verifikasi Berhasil",
            showsConfidence |-> TRUE, confidence |-> res.confidence,
            image |-> res.hasFile]
    ELSE [kind |-> "failure", text |-> "Wajah tidak terdeteksi sebagai orang asli",
          showsConfidence |-> FALSE, confidence |-> 0, image |-> FALSE]

(* What the result step renders from result and error: the error panel, the success
   panel with confidence and face image, or the failure panel, which has no image *)
ResultView(res, err) ==
    IF err # NoError /\ ~res.present
      THEN [kind |-> "error", text |-> err, showsConfidence |-> FALSE,
            confidence |-> 0, image |-> FALSE]
    ELSE IF res.present /\ res.isLive
      THEN [kind |-> "success", text |-> "Verifikasi Berhasil",
            showsConfidence |-> TRUE, confidence |-> res.confidence,
            image |-> res.hasFile]
    ELSE [kind |-> "failure",
          text |-> IF res.present /\ res.failureReason # ""
                     THEN res.failureReason
                     ELSE "Wajah tidak terdeteksi sebagai orang asli",
          showsConfidence |-> res.present /\ res.confidence > 0,
          confidence |-> IF res.present /\ res.confidence > 0 THEN res.confidence ELSE 0,
          image |-> FALSE]

-----------------------------------------------------------------------------
(* The guidance loop on its own: the camera step with the camera playing and the
   detector loaded, where detectFace is the only thing that runs.  Every face size
   ratio from 0 to 100 percent is fed to it. *)
AllRatios == 0..100

GuidanceInit ==
    /\ nik = NikFilter(CHOOSE raw \in TypedValues : Len(raw) = NikLength)
    /\ method = "passive"
    /\ session = [sessionId |-> 1, nik |-> nik, method |-> "passive",
                  hasChallenges |-> FALSE, challenges |-> << >>]
    /\ result = NoResult
    /\ step = "camera"
    /\ loading = FALSE
    /\ error = NoError
    /\ cameraReady = TRUE
    /\ countdown = NoCountdown
    /\ currentChallenge = NoChallenge
    /\ challengeIndex = 0
    /\ instruction = "Posisikan wajah dalam bingkai oval"
    /\ faceDetected = FALSE
    /\ faceCount = 0
    /\ faceDistance = NoDistance
    /\ ovalSize = OvalMin * OvalScale
    /\ borderColor = "white"
    /\ isCapturing = FALSE
    /\ streamRef = 1
    /\ framesRef = << >>
    /\ modelRef = TRUE
    /\ detectionIntervalRef = TRUE
    /\ videoSrc = 1
    /\ activeStreams = {1}
    /\ nextStream = 2
    /\ nextSession = 2
    /\ pcLoadModel = "done"
    /\ pcCreate = "idle"
    /\ seqs = << >>
    /\ detectInFlight = 0
    /\ lastOp = SimpleOp("cameraReady")

GuidanceNext ==
    \/ DetectTick
    \/ DetectNoFace
    \/ \E n \in 2..MaxFaces : DetectManyFaces(n)
    \/ \E r \in AllRatios : DetectOneFace(r)
    \/ DetectError

GuidanceSpec == GuidanceInit /\ [][GuidanceNext]_vars

-----------------------------------------------------------------------------
(* The state machine is in Capturing: a sequence of the current session is between
   its first countdown tick and its end *)
Capturing ==
    /\ step = "camera"
    /\ \E k \in 1..Len(seqs) :
         /\ seqs[k].pc \in {"countdown", "passiveWait", "activeWait"}
         /\ ~seqs[k].stale
         /\ seqs[k].sess.sessionId = session.sessionId

(* C1: once handleReset has run, a capture sequence that was suspended in a wait
   performs no further step at all. *)
C1_ResetCancelsSequences == ~lastOp.stale

(* C2: handleReset leaves step = input, the stream streamRef held stopped and
   streamRef empty, the frame buffer empty, no session, no result, no error, and
   the guidance state at its initial values. *)
C2_ResetClearsAll ==
    [][HandleReset =>
        /\ step' = "input"
        /\ streamRef' = NoStream
        /\ streamRef \notin activeStreams'
        /\ framesRef' = << >>
        /\ session' = NoSession
        /\ result' = NoResult
        /\ error' = NoError
        /\ ~faceDetected'
        /\ faceCount' = 0
        /\ faceDistance' = NoDistance
        /\ ovalSize' = OvalMin * OvalScale
        /\ borderColor' = "white"]_vars

(* A reset issued while a passive sequence waits between two frames *)
C2_Witness ==
    /\ lastOp.name = "reset"
    /\ \E k \in 1..Len(seqs) : seqs[k].stale /\ seqs[k].pc = "passiveWait"

(* C3: a submit request carries the identifier of the session that is current when
   it is sent and only frames taken during that attempt, and is never sent by a
   sequence whose session a reset has discarded. *)
C3_SubmitOnlyCurrentAttempt ==
    lastOp.name = "submit" =>
        /\ ~lastOp.stale
        /\ lastOp.sid = session.sessionId
        /\ \A j \in 1..Len(lastOp.frames) : lastOp.frames[j].att = lastOp.sid

(* C4: in the steps input, processing and result no acquired stream is left
   unstopped. *)
C4_NoStreamLeak ==
    step \in {"input", "processing", "result"} => activeStreams = {}

(* C5: at most one acquired stream is unstopped at any time. *)
C5_AtMostOneStream == Cardinality(activeStreams) <= 1

(* C6: a capture sequence starts (the capturing flag and the countdown are set) only
   from a state of the camera step with faceDetected, faceCount = 1 and
   faceDistance = good; in any other state no step starts one. *)
C6_CaptureOnlyWhenEligible ==
    [][(Len(seqs') # Len(seqs) \/ (isCapturing' /\ ~isCapturing)) =>
         /\ step = "camera"
         /\ faceDetected /\ faceCount = 1 /\ faceDistance = "good"]_vars

(* startVerification has just set the capturing flag and the countdown *)
C6_Witness ==
    /\ lastOp.name = "startVerification"
    /\ isCapturing
    /\ countdown = CountdownStart

(* C7: no captureFrame call happens while a detectFace call is in flight, and no
   detection tick starts while the state machine is in Capturing. *)
C7_GuidanceCaptureExclusive ==
    /\ lastOp.name = "capture" => detectInFlight = 0
    /\ lastOp.name \in {"detectStart", "detectSkipped"} => ~Capturing

(* C8: whenever step is processing, step eventually becomes result. *)
C8_ProcessingLeadsToResult == (step = "processing") ~> (step = "result")

(* A verify request is awaited in the processing step *)
C8_Witness ==
    /\ step = "processing"
    /\ \E k \in 1..Len(seqs) : seqs[k].pc = "fetch"

(* C9: after a server-reported failure and after a transport failure alike, the
   result step holds a result record with isLive = false and a failure reason. *)
C9_FailureIsResultRecord ==
    lastOp.name \in {"verifyServerFailure", "verifyTransportFailure"} =>
        /\ step = "result"
        /\ result.present
        /\ ~result.isLive
        /\ result.failureReason # ""

(* C9 as amended: a server-reported failure stores a result record with
   isLive = false, confidence 0 and a failure reason (and the error code the server
   supplied); a transport failure stores no record, leaves result as it was and sets
   the error message; both set step = result. *)
C9_FailureSurfaces ==
    [][\A k \in 1..Len(seqs) :
         /\ \A f \in ServerFailures :
              VerifyServerFailure(k, f.message, f.code) =>
                /\ step' = "result"
                /\ result'.present
                /\ ~result'.isLive
                /\ result'.confidence = 0
                /\ result'.failureReason # ""
                /\ f.message # "" => result'.failureReason = f.message
                /\ result'.errorCode = f.code
         /\ VerifyTransportFailure(k) =>
                /\ step' = "result"
                /\ result' = result
                /\ error' # NoError]_vars

(* A transport failure has ended an attempt: no result record, the error is set *)
C9_Witness ==
    /\ lastOp.name = "verifyTransportFailure"
    /\ step = "result"
    /\ ~result.present
    /\ error # NoError

(* C10: a capture sequence that finishes with zero frames puts the state machine in
   result with an error, and sends no submit request. *)
C10_EmptyCaptureGoesToResult ==
    lastOp.name \in {"emptyCapture", "noChallenges"} =>
        /\ step = "result"
        /\ error # NoError

(* C11: after startCamera fails (permission or device), the state machine is back in
   input with the session discarded and the error set, so that createSession can be
   retried. *)
C11_CameraFailureReturnsToInput ==
    lastOp.name \in {"getUserMediaRejected", "playRejected"} =>
        /\ step = "input"
        /\ session = NoSession
        /\ error # NoError

(* C13: when the create-session call has failed, the step is input, no session is
   stored and the error is set. *)
C13_CreateFailureStaysInInput ==
    lastOp.name = "createFailed" =>
        /\ step = "input"
        /\ session = NoSession
        /\ error # NoError

(* C12: createSession with an identifier that is not exactly 16 digits sends no
   create-session request: it sets the error "NIK harus 16 digit" and leaves the step
   input, the session none and the camera untouched.  A create-session request is
   sent only with an identifier of exactly 16 digits. *)
C12_InvalidNikRejected ==
    [][LET sixteenDigits == Len(nik) = 16 /\ \A j \in 1..Len(nik) : nik[j] \in Digits
       IN  /\ (pcCreate' = "fetch" /\ pcCreate # "fetch") => sixteenDigits
           /\ (step = "input" /\ ~loading /\ ~sixteenDigits) =>
                  /\ ENABLED CreateSessionRejected
                  /\ ~ENABLED CreateSession
           /\ CreateSessionRejected =>
                  /\ ~sixteenDigits
                  /\ error' = "NIK harus 16 digit"
                  /\ step' = "input"
                  /\ session' = NoSession
                  /\ pcCreate' = "idle"
                  /\ ~loading'
                  /\ nextSession' = nextSession
                  /\ streams' = streams]_vars

(* createSession has just rejected the five-digit identifier 12345 *)
C12_Witness ==
    /\ lastOp.name = "createRejected"
    /\ nik = <<"1", "2", "3", "4", "5">>
    /\ error = "NIK harus 16 digit"
    /\ step = "input"
    /\ session = NoSession
    /\ pcCreate = "idle"
    /\ streamRef = NoStream

(* C14: a passive capture sequence that runs uninterrupted (no other sequence was
   running when it started, and no reset since) has taken one untagged frame before
   each of its 400 ms waits, and hands to submitVerification a buffer of exactly
   5 untagged frames of the live camera, which is the buffer it sends. *)
C14_PassiveFiveFrames ==
    /\ \A k \in 1..Len(seqs) :
         (seqs[k].alone /\ ~seqs[k].stale /\ seqs[k].pc = "passiveWait") =>
             /\ Len(framesRef) = seqs[k].i + 1
             /\ \A j \in 1..Len(framesRef) :
                  /\ framesRef[j].action = NoAction
                  /\ framesRef[j].image # NoStream
                  /\ framesRef[j].att = seqs[k].sess.sessionId
    /\ (/\ lastOp.name = "submit"
        /\ seqs[lastOp.seq].alone
        /\ ~lastOp.stale
        /\ seqs[lastOp.seq].method = "passive") =>
             /\ Len(lastOp.frames) = 5
             /\ lastOp.frames = framesRef
             /\ \A j \in 1..Len(lastOp.frames) :
                  /\ lastOp.frames[j].action = NoAction
                  /\ lastOp.frames[j].image # NoStream
                  /\ lastOp.frames[j].att = lastOp.sid

(* An uninterrupted passive sequence has just submitted its five frames *)
C14_Witness ==
    /\ lastOp.name = "submit"
    /\ seqs[lastOp.seq].alone
    /\ ~lastOp.stale
    /\ seqs[lastOp.seq].method = "passive"
    /\ Len(lastOp.frames) = 5
    /\ step = "processing"

(* C15: an active capture sequence that runs uninterrupted shows, during its i-th
   wait, challenge i of the session and holds the frames of challenges 1..i-1, each
   tagged with its challenge; each round shows the instruction of its challenge
   before the wait; the buffer it submits has exactly one frame per challenge, in
   the session's order, each tagged with its challenge identifier. *)
C15_ActiveOneFramePerChallenge ==
    /\ [](\A k \in 1..Len(seqs) :
            (seqs[k].alone /\ ~seqs[k].stale /\ seqs[k].pc = "activeWait") =>
                /\ seqs[k].i \in 1..Len(seqs[k].sess.challenges)
                /\ currentChallenge = seqs[k].sess.challenges[seqs[k].i]
                /\ Len(framesRef) = seqs[k].i - 1
                /\ \A j \in 1..Len(framesRef) :
                     /\ framesRef[j].action = seqs[k].sess.challenges[j]
                     /\ framesRef[j].image # NoStream)
    /\ []((/\ lastOp.name = "submit"
           /\ seqs[lastOp.seq].alone
           /\ ~lastOp.stale
           /\ seqs[lastOp.seq].method = "active") =>
                /\ Len(lastOp.frames) = Len(seqs[lastOp.seq].sess.challenges)
                /\ lastOp.frames = framesRef
                /\ \A j \in 1..Len(lastOp.frames) :
                     /\ lastOp.frames[j].action = seqs[lastOp.seq].sess.challenges[j]
                     /\ lastOp.frames[j].image # NoStream)
    /\ [][\A k \in 1..Len(seqs) :
            (seqs[k].alone /\ ~seqs'[k].stale /\ seqs'[k].pc = "activeWait"
               /\ (seqs'[k].i # seqs[k].i \/ seqs[k].pc # "activeWait")) =>
                /\ instruction' = CHALLENGE_NAMES(seqs[k].sess.challenges[seqs'[k].i])
                /\ currentChallenge' = seqs[k].sess.challenges[seqs'[k].i]
                /\ Len(framesRef') = seqs'[k].i - 1]_vars

(* An uninterrupted active sequence has just submitted the frames of blink and smile *)
C15_Witness ==
    /\ lastOp.name = "submit"
    /\ seqs[lastOp.seq].alone
    /\ ~lastOp.stale
    /\ seqs[lastOp.seq].method = "active"
    /\ Len(lastOp.frames) = 2
    /\ lastOp.frames[1].action = "blink"
    /\ lastOp.frames[2].action = "smile"
    /\ step = "processing"

(* C16: while a capture sequence that has not been reset is between its first
   countdown tick and its end, the guidance loop is suspended; and while it is still
   counting down, no frame of its attempt has been captured. *)
C16_CountdownBeforeCapture ==
    \A k \in 1..Len(seqs) :
        (seqs[k].pc \in {"countdown", "passiveWait", "activeWait"} /\ ~seqs[k].stale) =>
            /\ ~detectionIntervalRef
            /\ seqs[k].pc = "countdown" =>
                   \A j \in 1..Len(framesRef) :
                       framesRef[j].att # seqs[k].sess.sessionId

(* C17: when a submit request is sent, the step is processing, the camera stream has
   been stopped and released, and the request carries the identifier of the current
   session together with the whole frame buffer. *)
C17_SubmitAfterCameraReleased ==
    lastOp.name = "submit" =>
        /\ step = "processing"
        /\ streamRef = NoStream
        /\ activeStreams = {}
        /\ ~cameraReady
        /\ session # NoSession
        /\ lastOp.sid = session.sessionId
        /\ lastOp.frames = framesRef
        /\ lastOp.frames # << >>

(* C18: no two submit requests of one session are pending together, and a result
   stored in the result step is changed by no step other than reset. *)
C18_ResultOnceAndImmutable ==
    [][/\ \A j, k \in 1..Len(seqs') :
            (j # k /\ seqs'[j].pc = "fetch" /\ seqs'[k].pc = "fetch") =>
                seqs'[j].sess.sessionId # seqs'[k].sess.sessionId
       /\ (result.present /\ step = "result" /\ lastOp'.name # "reset") =>
              result' = result]_vars

(* C19: right after a detection tick that found no face, faceDetected is false,
   faceCount is 0, the distance class is unknown, the colour is the neutral white and
   the instruction is none of the messages of another detection outcome. *)
C19_NoFaceResetsGuidance ==
    lastOp.name = "detectNoFace" =>
        /\ ~faceDetected
        /\ faceCount = 0
        /\ faceDistance = NoDistance
        /\ borderColor = "white"
        /\ instruction \notin {"Wajah terdeteksi",
                               "Terlalu jauh, dekatkan wajah Anda",
                               "Terlalu dekat, mundur sedikit",
                               "Pastikan hanya satu wajah dalam bingkai"}

(* C20: a detection tick that finds n > 1 faces sets faceCount to n, the colour to red
   and the instruction to the only-one-face message; and while faceCount is not 1 no
   capture sequence starts, whatever the stored distance class is. *)
C20_ManyFacesDisableCapture ==
    [][/\ \A n \in 2..MaxFaces :
            DetectManyFaces(n) =>
                /\ faceCount' = n
                /\ borderColor' = "red"
                /\ instruction' = "Pastikan hanya satu wajah dalam bingkai"
                /\ ~CaptureButtonEnabled'
       /\ faceCount # 1 =>
              /\ ~ENABLED StartVerification
              /\ Len(seqs') = Len(seqs)
              /\ isCapturing' => isCapturing]_vars

(* Two faces were just counted while the stored distance class is still good *)
C20_Witness ==
    /\ lastOp.name = "detectManyFaces"
    /\ faceCount = 2
    /\ faceDetected
    /\ faceDistance = "good"
    /\ borderColor = "red"
    /\ cameraReady
    /\ ~isCapturing
    /\ countdown = NoCountdown

(* C21: a detection tick with exactly one face of size ratio r (percent of the frame
   area) sets faceDetected and faceCount = 1 and classifies: r < 15 is too-far with
   overlay 60 and the white border; r > 35 is too-close with overlay 85 and the white
   border; every other ratio, 15 and 35 included, is good with the green border. *)
C21_OneFaceClassification ==
    [][\A r \in AllRatios :
         DetectOneFace(r) =>
            /\ faceDetected'
            /\ faceCount' = 1
            /\ r < 15 =>
                  /\ faceDistance' = "too-far"
                  /\ ovalSize' = 60 * OvalScale
                  /\ borderColor' = "white"
                  /\ instruction' = "Terlalu jauh, dekatkan wajah Anda"
            /\ r > 35 =>
                  /\ faceDistance' = "too-close"
                  /\ ovalSize' = 85 * OvalScale
                  /\ borderColor' = "white"
                  /\ instruction' = "Terlalu dekat, mundur sedikit"
            /\ (r >= 15 /\ r <= 35) =>
                  /\ faceDistance' = "good"
                  /\ borderColor' = "green"
                  /\ instruction' = "Wajah terdeteksi"]_vars

(* A face exactly at the lower boundary ratio 0.15 was just classified as good *)
C21_Witness ==
    /\ lastOp.name = "detectOneFace"
    /\ faceDetected
    /\ faceCount = 1
    /\ faceDistance = "good"
    /\ ovalSize = 60 * OvalScale
    /\ borderColor = "green"

(* C22: for every ratio r from 15 to 35 percent the overlay size set by the tick is
   60 + ((r - 15) / 20) * 25 percent, lies between 60 and 85 and does not decrease
   when r grows; r = 25 gives 72.5 and r = 10 gives too-far with 60.  Sizes are in
   quarters of a percent, so the equation is multiplied by 20 * OvalScale. *)
C22_OverlaySizeInterpolation ==
    [][/\ \A r \in 15..35 :
            DetectOneFace(r) =>
               /\ 20 * ovalSize' = OvalScale * (20 * 60 + (r - 15) * 25)
               /\ ovalSize' >= 60 * OvalScale
               /\ ovalSize' <= 85 * OvalScale
               /\ \A q \in 15..r : Guidance(q).ovalSize <= ovalSize'
       /\ DetectOneFace(25) => 2 * ovalSize' = OvalScale * 145
       /\ DetectOneFace(35) => ovalSize' = 85 * OvalScale
       /\ DetectOneFace(10) => (faceDistance' = "too-far" /\ ovalSize' = 60 * OvalScale)
      ]_vars

(* A face at ratio 0.25 was just given the overlay size 72.5 *)
C22_Witness ==
    /\ lastOp.name = "detectOneFace"
    /\ faceDistance = "good"
    /\ 2 * ovalSize = OvalScale * 145
    /\ borderColor = "green"

(* C23: in every state outside the input step a reset step is possible, and right
   after a reset a createSession with the valid identifier in the field is
   accepted. *)
C23_ResetAlwaysPossible ==
    /\ step # "input" => ENABLED HandleReset
    /\ (lastOp.name = "reset" /\ NikValid(nik) /\ nextSession <= MaxSessions + 1) =>
           ENABLED CreateSession

(* C24: handleReset run a second time right after it has run changes nothing: the
   state after two resets in a row is the state after one. *)
C24_ResetIdempotent ==
    [][HandleResetAgain =>
          UNCHANGED <<reactState, refs, videoSrc, activeStreams, nextStream,
                      nextSession, pcLoadModel, pcCreate, seqs, detectInFlight>>]_vars

(* A first reset has discarded session 1 with its live stream, and a second reset
   has run after it *)
C24_Witness ==
    /\ lastOp.name = "reset"
    /\ lastOp.sid = 0
    /\ step = "input"
    /\ nextSession = 2
    /\ nextStream = 2
    /\ activeStreams = {}
    /\ session = NoSession

(* C25: stopCamera called while no stream is held (before one was acquired, or a
   second time after a release) stops nothing: the set of live streams is unchanged,
   no stream is held afterwards, cameraReady is false and the detection interval is
   cleared. *)
C25_StopCameraIdempotent ==
    [][(lastOp'.name \in {"reset", "submit"} /\ streamRef = NoStream) =>
          /\ activeStreams' = activeStreams
          /\ streamRef' = NoStream
          /\ ~cameraReady'
          /\ ~faceDetected'
          /\ ~detectionIntervalRef']_vars

(* Batal was pressed before the camera of session 1 was acquired: stopCamera ran
   with no stream *)
C25_Witness ==
    /\ lastOp.name = "reset"
    /\ lastOp.sid = 1
    /\ nextStream = 1
    /\ streamRef = NoStream
    /\ activeStreams = {}
    /\ ~cameraReady
    /\ ~detectionIntervalRef

(* C26: captureFrame returns no frame when no camera stream is live, so every frame
   in the buffer shows the live stream of the attempt in which it was taken. *)
C26_FramesOnlyFromLiveStream ==
    /\ \A j \in 1..Len(framesRef) : framesRef[j].image # NoStream
    /\ lastOp.name = "capture" =>
           \A j \in 1..Len(lastOp.frames) : lastOp.frames[j].image # NoStream

(* C27: while the detector is not loaded a detection tick returns at once without a
   detection: no detectFace call is awaiting the detector, the tick changes no
   guidance field, the guidance state is not capture-eligible and no capture
   sequence has been started. *)
C27_NoDetectionBeforeModelReady ==
    /\ [](~modelRef =>
            /\ detectInFlight = 0
            /\ ~Eligible(faceDetected, faceDistance, faceCount)
            /\ ~CaptureButtonEnabled
            /\ seqs = << >>)
    /\ [][(DetectTick /\ ~modelRef) =>
            /\ lastOp'.name = "detectSkipped"
            /\ UNCHANGED <<reactState, refs, streams, seqs, detectInFlight>>]_vars

(* The camera plays, the detector is still loading, and a tick has just returned
   without a detection *)
C27_Witness ==
    /\ lastOp.name = "detectSkipped"
    /\ ~modelRef
    /\ pcLoadModel = "loading"
    /\ cameraReady
    /\ step = "camera"
    /\ detectInFlight = 0
    /\ ~faceDetected

(* C28: a detection tick, whatever it finds (no face, several faces, one face at any
   distance, a detector error), changes only guidance fields: step, session, frame
   buffer, camera stream, result, error and the capturing flag are unchanged, and so
   are the pending capture sequences. *)
C28_GuidanceNeverAborts ==
    [][lastOp'.name \in {"detectStart", "detectSkipped", "detectNoFace",
                         "detectManyFaces", "detectOneFace", "detectError"} =>
          UNCHANGED <<step, session, framesRef, streamRef, activeStreams, videoSrc,
                      result, error, isCapturing, cameraReady, loading, countdown,
                      seqs, pcCreate>>]_vars

(* A tick has just found a face that is too close, in the middle of an attempt *)
C28_Witness ==
    /\ lastOp.name = "detectOneFace"
    /\ faceDistance = "too-close"
    /\ step = "camera"
    /\ session # NoSession
    /\ cameraReady
    /\ streamRef \in activeStreams

(* C29: in the result step the screen shows success exactly when a result is stored
   with isLive true, and then shows its confidence and, when the result has one, its
   face image; for a stored result with isLive false it shows failure and no face
   image, whether or not the result carries a file. *)
C29_ResultScreen ==
    step = "result" =>
        LET view == ResultView(result, error)
        IN  /\ view.kind = "success" <=> (result.present /\ result.isLive)
            /\ view.kind = "success" =>
                   /\ view.showsConfidence
                   /\ view.confidence = result.confidence
                   /\ view.image = result.hasFile
            /\ (result.present /\ ~result.isLive) =>
                   /\ view.kind = "failure"
                   /\ ~view.image

(* The verifier answered not live with confidence 12.0 and no file: the screen shows
   failure without an image *)
C29_Witness ==
    /\ step = "result"
    /\ lastOp.name = "verifyOk"
    /\ result.present
    /\ ~result.isLive
    /\ result.confidence = 120
    /\ ~result.hasFile
    /\ ResultView(result, error).kind = "failure"
    /\ ~ResultView(result, error).image

(* C30: whenever a startVerification sequence that no reset has discarded is between
   its first countdown tick and its end, isCapturing is true and no second such
   sequence is running; the end of an older sequence never clears isCapturing under
   a newer one. *)
C30_OneSequenceUnderFlag ==
    \A k \in 1..Len(seqs) :
        (seqs[k].pc # "done" /\ ~seqs[k].stale) =>
            /\ isCapturing
            /\ \A j \in 1..Len(seqs) :
                   (j # k /\ ~seqs[j].stale) => seqs[j].pc = "done"

(* C31: in the input step the guidance state is cleared: faceDetected is false,
   faceCount is 0 and the distance class is unset, so no detection of a previous
   attempt is left to make a new attempt capture-eligible. *)
C31_InputHasNoGuidance ==
    step = "input" =>
        /\ ~faceDetected
        /\ faceCount = 0
        /\ faceDistance = NoDistance

(* C32: in the processing step a session is held and the frame buffer is not empty;
   in the input step the frame buffer is empty and no session is held. *)
C32_StepBufferSession ==
    /\ step = "processing" => (session # NoSession /\ framesRef # << >>)
    /\ step = "input" => (session = NoSession /\ framesRef = << >>)

(* C33: the countdown is set only in the camera step while isCapturing is true. *)
C33_CountdownOnlyWhileCapturing ==
    countdown # NoCountdown => (step = "camera" /\ isCapturing)

(* C34: the overlay size is between 60 and 85 percent in every reachable state,
   whatever detection ticks, camera starts and resets have happened. *)
C34_OvalSizeInRange ==
    /\ ovalSize >= 60 * OvalScale
    /\ ovalSize <= 85 * OvalScale

(* A tick has set the largest size, 85, for a face that is too close, and a reset
   has not happened since *)
C34_Witness ==
    /\ lastOp.name = "detectOneFace"
    /\ faceDistance = "too-close"
    /\ ovalSize = 85 * OvalScale
    /\ nextSession > 1

(* C35: startVerification invoked while the guidance state is not eligible only sets
   the error message: step, session, frame buffer, camera stream, countdown,
   capturing flag and the set of capture sequences are unchanged; and with no
   session stored no capture sequence can start at all. *)
C35_RejectedStartHasNoEffect ==
    /\ [][StartVerificationRejected =>
            /\ error' = "Pastikan wajah terdeteksi dengan baik dan posisi tepat di tengah"
            /\ UNCHANGED <<inputs, session, result, step, loading, cameraReady, countdown,
                           challengeState, guidance, isCapturing, refs, streams,
                           nextSession, pcLoadModel, pcCreate, seqs,
                           detectInFlight>>]_vars
    /\ [](session = NoSession => ~ENABLED StartVerification)

(* startVerification was just refused because two faces are counted *)
C35_Witness ==
    /\ lastOp.name = "startRejected"
    /\ faceCount = 2
    /\ step = "camera"
    /\ cameraReady
    /\ ~isCapturing
    /\ countdown = NoCountdown
    /\ seqs = << >>
    /\ error = "Pastikan wajah terdeteksi dengan baik dan posisi tepat di tengah"

(* C36: a live result is stored only by a successful answer of the verifier that
   says live: the record built on a server-reported failure has isLive false and
   confidence 0, and a transport failure stores no result at all. *)
C36_LiveOnlyFromServer ==
    [][/\ (result' # result /\ result'.present /\ result'.isLive) =>
              \E k \in 1..Len(seqs) : \E v \in ServerVerdicts :
                  v.isLive /\ VerifyOk(k, v)
       /\ \A k \in 1..Len(seqs) :
            /\ \A f \in ServerFailures :
                 VerifyServerFailure(k, f.message, f.code) =>
                     (~result'.isLive /\ result'.confidence = 0)
            /\ VerifyTransportFailure(k) => result' = result]_vars

(* The verifier reported a failure without a message: the stored record is the one
   the client built, not live, confidence 0, with the default reason *)
C36_Witness ==
    /\ lastOp.name = "verifyServerFailure"
    /\ step = "result"
    /\ result.present
    /\ ~result.isLive
    /\ result.confidence = 0
    /\ result.failureReason = "Verification failed"

(* C37: when the active method runs on a session whose challenge list is absent or
   empty, the capture sequence ends with the capturing flag cleared, the step still
   camera and the camera still held. *)
C37_EndsInCameraStep ==
    [][\A k \in 1..Len(seqs) :
         (ActiveNoChallenges(k) \/ ActiveEmpty(k)) =>
            /\ ~isCapturing'
            /\ step' = "camera"
            /\ cameraReady'
            /\ streamRef' \in activeStreams']_vars

====
